---- MODULE Spec2Model ----
(***************************************************************************)
(* A model of conflicts.py: detection of Civ5 mods' .lua name conflicts.   *)
(*                                                                         *)
(* A string that the program only compares for equality (a file name, a    *)
(* folder) is a TLA+ string.  A mod's name, which is_voxpopuli() searches  *)
(* for substrings, is a sequence of tokens: `a in b` on two Python strings *)
(* is modelled as `a` being a contiguous subsequence of `b`.               *)
(***************************************************************************)
EXTENDS Integers, Sequences, FiniteSets, TLC

\* ---- bounds of the model ----
\* the most subdirectories the scanned directory holds
MaxDirs == 3
\* the most .lua files under the scanned directory
MaxFiles == 3

\* ---- configuration data ----
VP_MODNAMES ==
    << <<"(1)", "Community Patch">>,
       <<"(2)", "Community Balance Overhaul">>,
       <<"(3)", "CSD for CBP">>,
       <<"(4)", "Civ IV Diplomatic Features">>,
       <<"(5)", "More Luxuries">>,
       <<"(6a)", "Community Balance Overhaul", "- Compatibility Files (EUI)">>,
       <<"(6b)", "Community Balance Overhaul", "- Compatibility Files (No-EUI)">>,
       <<"(6c)", "43 Civs CP">>,
       <<"(7a)", "Promotion Icons for VP">>,
       <<"(7b)", "UI - Promotion Tree for VP">> >>

\* ---- the inputs: what the file system can hold ----
\* stems of the .modinfo files found, in the order Python sorts them as strings
StemOrder ==
    << <<"(1)", "Community Patch", "(v 88)">>,
       <<"Community Patch", "(v 88)">>,
       <<"modA">> >>
Stems == {StemOrder[r] : r \in DOMAIN StemOrder}
\* names of the .lua files found, in the order Python sorts them as strings
FileOrder == <<"x.lua", "y.lua">>
FileNames == {FileOrder[r] : r \in DOMAIN FileOrder}
\* next(..., None) of line 77 when the subdirectory holds no .modinfo file
None == <<"None">>

VARIABLES
    pc,                   \* the position of print_conflicts / getmods
    is_dir,               \* path.is_dir() of the scanned directory
    ndirs,                \* len(dirs): the number of immediate subdirectories
    tree,                 \* what the walk has read of each subdirectory so far
    mods,                 \* getmods' list of Mod objects
    error,                \* the exception that ended the run, or None
    out,                  \* the lines printed to standard output
    vp_luas,              \* print_conflicts' local of line 146
    not_vp_luas,          \* print_conflicts' local of line 146
    vp_conflicts_map,     \* print_conflicts' local of line 147
    not_vp_conflicts_map  \* print_conflicts' local of line 148

vars == <<pc, is_dir, ndirs, tree, mods, error, out, vp_luas, not_vp_luas,
          vp_conflicts_map, not_vp_conflicts_map>>

\* ---- helpers ----
Range(s) == {s[i] : i \in DOMAIN s}

\* the iteration orders of a Python set: every arrangement of its elements
RECURSIVE Orders(_)
Orders(S) ==
    IF S = {} THEN {<<>>}
    ELSE UNION {{<<e>> \o o : o \in Orders(S \ {e})} : e \in S}

\* an empty dict
EmptyMap == [k \in {} |-> <<>>]

\* Python `sub in s` on strings
Contains(sub, s) ==
    \E k \in 0..(Len(s) - Len(sub)) : SubSeq(s, k + 1, k + Len(sub)) = sub

\* ---- Mod ----
Mod(modinfo_file, lua_files) ==
    [modinfo_file |-> modinfo_file, lua_files |-> lua_files]

\* Path.stem of the .modinfo file
name(mod) == mod.modinfo_file.stem

LuaFile(path, modname, is_vp) ==
    [path |-> path, modname |-> modname, is_vp |-> is_vp]

\* ---- is_voxpopuli ----
\* a slip: the name is compared for equality
is_voxpopuli_equal(modname) ==
    \E i \in DOMAIN VP_MODNAMES : VP_MODNAMES[i] = modname

is_voxpopuli(modname) ==
    \E i \in DOMAIN VP_MODNAMES : Contains(VP_MODNAMES[i], modname)

\* ---- sort_out_luas ----
lua_files_of(ms) ==
    UNION {{LuaFile(file, name(ms[i]), FALSE) : file \in ms[i].lua_files} :
            i \in DOMAIN ms}

sort_out_luas(ms) ==
    LET lua_files == lua_files_of(ms)
    IN  [vp |-> {LuaFile(lf.path, lf.modname, TRUE) :
                    lf \in {l \in lua_files : is_voxpopuli(l.modname)}},
         not_vp |-> {lf \in lua_files : ~is_voxpopuli(lf.modname)}]

\* ---- _add_lua ----
\* a slip: no check of the mod's name
_add_lua_always(duplimap, lua) ==
    IF lua.path.name \notin DOMAIN duplimap
    THEN duplimap @@ (lua.path.name :> <<lua>>)
    ELSE [duplimap EXCEPT ![lua.path.name] = Append(@, lua)]

\* a slip: a second file of a mod starts the list again
_add_lua_restart(duplimap, lua) ==
    IF lua.path.name \notin DOMAIN duplimap
    THEN duplimap @@ (lua.path.name :> <<lua>>)
    ELSE IF lua.modname \notin {v.modname : v \in Range(duplimap[lua.path.name])}
         THEN [duplimap EXCEPT ![lua.path.name] = Append(@, lua)]
         ELSE [duplimap EXCEPT ![lua.path.name] = <<lua>>]

\* a slip: the mod's folder is compared, not the mod's name
_add_lua_by_dir(duplimap, lua) ==
    IF lua.path.name \notin DOMAIN duplimap
    THEN duplimap @@ (lua.path.name :> <<lua>>)
    ELSE IF lua.path.dir \notin {v.path.dir : v \in Range(duplimap[lua.path.name])}
         THEN [duplimap EXCEPT ![lua.path.name] = Append(@, lua)]
         ELSE duplimap

_add_lua(duplimap, lua) ==
    IF lua.path.name \notin DOMAIN duplimap
    THEN duplimap @@ (lua.path.name :> <<lua>>)
    ELSE IF lua.modname \notin {v.modname : v \in Range(duplimap[lua.path.name])}
         THEN [duplimap EXCEPT ![lua.path.name] = Append(@, lua)]
         ELSE duplimap

\* d[lua.path.name].append(lua) on a defaultdict(list)
append_lua(d, lua) ==
    IF lua.path.name \notin DOMAIN d
    THEN d @@ (lua.path.name :> <<lua>>)
    ELSE [d EXCEPT ![lua.path.name] = Append(@, lua)]

RECURSIVE append_all(_, _)
append_all(d, luas) ==
    IF luas = <<>> THEN d ELSE append_all(append_lua(d, Head(luas)), Tail(luas))

RECURSIVE add_all(_, _)
add_all(d, luas) ==
    IF luas = <<>> THEN d ELSE add_all(_add_lua(d, Head(luas)), Tail(luas))

\* {k: v for k, v in d.items() if cond}
Restrict(d, keep) == [k \in keep |-> d[k]]

\* ---- find_vp_conflicts, iterating the two sets in the given orders ----
find_vp_conflicts(vp_order, not_vp_order) ==
    LET d == add_all(append_all(EmptyMap, vp_order), not_vp_order)
    IN  Restrict(d, {k \in DOMAIN d :
            /\ \E j \in DOMAIN d[k] : d[k][j] \in Range(vp_order)
            /\ Len(d[k]) >= 3})

\* ---- find_not_vp_conflicts, iterating the set in the given order ----
\* a slip: the threshold of find_vp_conflicts
find_not_vp_conflicts_min3(not_vp_order) ==
    LET d == add_all(EmptyMap, not_vp_order)
    IN  Restrict(d, {k \in DOMAIN d : Len(d[k]) >= 3})

find_not_vp_conflicts(not_vp_order) ==
    LET d == add_all(EmptyMap, not_vp_order)
    IN  Restrict(d, {k \in DOMAIN d : Len(d[k]) >= 2})

\* ---- the file system as the walk reads it ----
\* the files os.walk finds below subdirectory i: copies[f] files named f,
\* each in a subfolder of its own
LuasBelow(i, copies) ==
    UNION {{[dir |-> i, sub |-> s, name |-> f] : s \in 1..copies[f]} : f \in FileNames}

NumFiles(t) == Cardinality(UNION {t[i].luas : i \in DOMAIN t})

Listings(i, t) ==
    {[modinfo |-> m, luas |-> LuasBelow(i, c)] :
        m \in Stems \cup {None},
        c \in {cc \in [FileNames -> 0..MaxFiles] :
                 NumFiles(t) + Cardinality(LuasBelow(i, cc)) <= MaxFiles}}

\* ---- sorted() ----
RECURSIVE sorted_names(_, _)
sorted_names(names, r) ==
    IF r > Len(StemOrder) THEN <<>>
    ELSE SelectSeq(names, LAMBDA n : n = StemOrder[r]) \o sorted_names(names, r + 1)

RECURSIVE sorted_items(_, _)
sorted_items(map, r) ==
    IF r > Len(FileOrder) THEN <<>>
    ELSE (IF FileOrder[r] \in DOMAIN map
          THEN << <<FileOrder[r], map[FileOrder[r]]>> >> ELSE <<>>)
         \o sorted_items(map, r + 1)

\* ---- the state after construction ----
Init ==
    /\ pc = "getmods"
    /\ is_dir \in BOOLEAN
    /\ ndirs \in 0..MaxDirs
    /\ (~is_dir => ndirs = 0)
    /\ tree = <<>>
    /\ mods = <<>>
    /\ error = None
    /\ out = <<>>
    /\ vp_luas = {}
    /\ not_vp_luas = {}
    /\ vp_conflicts_map = EmptyMap
    /\ not_vp_conflicts_map = EmptyMap

\* ---- getmods ----
\* lines 64-65
GetModsNotADirectory ==
    /\ pc = "getmods"
    /\ ~is_dir
    /\ error' = <<"ValueError", "Not a directory", "root">>
    /\ pc' = "raised"
    /\ UNCHANGED <<is_dir, ndirs, tree, mods, out, vp_luas, not_vp_luas,
                   vp_conflicts_map, not_vp_conflicts_map>>

\* lines 70-82, one iteration that finds a .modinfo file
GetModsAppend ==
    /\ pc = "getmods"
    /\ is_dir
    /\ Len(tree) < ndirs
    /\ \E l \in Listings(Len(tree) + 1, tree) :
        /\ l.modinfo # None
        /\ tree' = Append(tree, l)
        /\ mods' = Append(mods,
               Mod([dir |-> Len(tree) + 1, stem |-> l.modinfo], l.luas))
    /\ UNCHANGED <<pc, is_dir, ndirs, error, out, vp_luas, not_vp_luas,
                   vp_conflicts_map, not_vp_conflicts_map>>

\* a slip: a subdirectory without a .modinfo file is skipped
GetModsNoModinfo_skip ==
    /\ pc = "getmods"
    /\ is_dir
    /\ Len(tree) < ndirs
    /\ \E l \in Listings(Len(tree) + 1, tree) :
        /\ l.modinfo = None
        /\ tree' = Append(tree, l)
    /\ UNCHANGED <<pc, is_dir, ndirs, mods, error, out, vp_luas, not_vp_luas,
                   vp_conflicts_map, not_vp_conflicts_map>>

\* lines 70-80, one iteration that finds no .modinfo file
GetModsNoModinfo ==
    /\ pc = "getmods"
    /\ is_dir
    /\ Len(tree) < ndirs
    /\ \E l \in Listings(Len(tree) + 1, tree) :
        /\ l.modinfo = None
        /\ tree' = Append(tree, l)
    /\ error' = <<"ValueError", "does not contain a .modinfo file", Len(tree) + 1>>
    /\ pc' = "raised"
    /\ UNCHANGED <<is_dir, ndirs, mods, out, vp_luas, not_vp_luas,
                   vp_conflicts_map, not_vp_conflicts_map>>

\* line 84 and lines 140-144
PrintHeader ==
    /\ pc = "getmods"
    /\ is_dir
    /\ Len(tree) = ndirs
    /\ out' = << <<"Parsed", NumFiles(tree), Len(mods)>> >>
              \o [i \in 1..Len(mods) |->
                    <<i, sorted_names([j \in DOMAIN mods |-> name(mods[j])], 1)[i]>>]
              \o << <<>> >>
    /\ pc' = "sort_out_luas"
    /\ UNCHANGED <<is_dir, ndirs, tree, mods, error, vp_luas, not_vp_luas,
                   vp_conflicts_map, not_vp_conflicts_map>>

\* line 146
SortOutLuas ==
    /\ pc = "sort_out_luas"
    /\ vp_luas' = sort_out_luas(mods).vp
    /\ not_vp_luas' = sort_out_luas(mods).not_vp
    /\ pc' = "find_vp_conflicts"
    /\ UNCHANGED <<is_dir, ndirs, tree, mods, error, out,
                   vp_conflicts_map, not_vp_conflicts_map>>

\* line 147
FindVpConflicts ==
    /\ pc = "find_vp_conflicts"
    /\ \E vp_order \in Orders(vp_luas), not_vp_order \in Orders(not_vp_luas) :
        vp_conflicts_map' = find_vp_conflicts(vp_order, not_vp_order)
    /\ pc' = "find_not_vp_conflicts"
    /\ UNCHANGED <<is_dir, ndirs, tree, mods, error, out, vp_luas, not_vp_luas,
                   not_vp_conflicts_map>>

\* line 148
FindNotVpConflicts ==
    /\ pc = "find_not_vp_conflicts"
    /\ \E not_vp_order \in Orders(not_vp_luas) :
        not_vp_conflicts_map' = find_not_vp_conflicts(not_vp_order)
    /\ pc' = "report"
    /\ UNCHANGED <<is_dir, ndirs, tree, mods, error, out, vp_luas, not_vp_luas,
                   vp_conflicts_map>>

\* lines 150-161
PrintReport ==
    /\ pc = "report"
    /\ out' = out
              \o << <<"Duplicates overwriting VP .lua's:">>,
                    <<"=================================">>, <<>> >>
              \o sorted_items(vp_conflicts_map, 1)
              \o << <<>>, <<"Other duplicates:">>, <<"=================">>, <<>> >>
              \o sorted_items(not_vp_conflicts_map, 1)
    /\ pc' = "done"
    /\ UNCHANGED <<is_dir, ndirs, tree, mods, error, vp_luas, not_vp_luas,
                   vp_conflicts_map, not_vp_conflicts_map>>

Next ==
    \/ GetModsNotADirectory
    \/ GetModsAppend
    \/ GetModsNoModinfo
    \/ PrintHeader
    \/ SortOutLuas
    \/ FindVpConflicts
    \/ FindNotVpConflicts
    \/ PrintReport

Spec == Init /\ [][Next]_vars

\* ==== the properties ====

\* both conflict maps have been computed and are about to be printed
Classified == pc = "report"

\* the packages (by position in mods, one per subdirectory) holding a file named x
Suppliers(x) ==
    {i \in DOMAIN mods : \E p \in mods[i].lua_files : p.name = x}

\* a name that has one of the VP names inside it: prefix \o vpname \o suffix
HasVpNameInside(n) ==
    \E i \in DOMAIN VP_MODNAMES :
        \E a \in 0..Len(n) : \E b \in a..Len(n) :
            n = SubSeq(n, 1, a) \o VP_MODNAMES[i] \o SubSeq(n, b + 1, Len(n))

Baseline(i) == HasVpNameInside(name(mods[i]))

BaselineSupplies(x) == \E i \in Suppliers(x) : Baseline(i)

\* the names of the non-baseline packages holding a file named x
NonVpNames(x) == {name(mods[i]) : i \in {j \in Suppliers(x) : ~Baseline(j)}}

\* the members of x's group in a result map that are owned by a mod named n
MembersNamed(map, x, n) ==
    IF x \in DOMAIN map
    THEN {k \in DOMAIN map[x] : map[x][k].modname = n}
    ELSE {}

\* the members of x's group in a result map that lie below subdirectory i
MembersBelow(map, x, i) ==
    IF x \in DOMAIN map
    THEN {k \in DOMAIN map[x] : map[x][k].path.dir = i}
    ELSE {}

\* C1 (as stated): no script name is a key of both result maps.
C1_Disjoint ==
    Classified =>
        DOMAIN vp_conflicts_map \cap DOMAIN not_vp_conflicts_map = {}

\* C1 (amended): a script name is a key of both result maps exactly when a
\* baseline package supplies it and at least two distinct non-baseline package
\* names supply it; every other name is a key of at most one map.
C1_Overlap ==
    Classified =>
        \A x \in FileNames :
            (x \in DOMAIN vp_conflicts_map /\ x \in DOMAIN not_vp_conflicts_map)
            <=> (BaselineSupplies(x) /\ Cardinality(NonVpNames(x)) >= 2)

C1_Witness ==
    /\ Classified
    /\ \E x \in FileNames :
        x \in DOMAIN vp_conflicts_map /\ x \in DOMAIN not_vp_conflicts_map

\* C2: x is a certain conflict iff a baseline package supplies x and at least
\* 3 distinct packages supply x.
C2_Certain ==
    Classified =>
        \A x \in FileNames :
            x \in DOMAIN vp_conflicts_map
            <=> (BaselineSupplies(x) /\ Cardinality(Suppliers(x)) >= 3)

\* C3 (as stated): x is a potential conflict iff no baseline package supplies
\* x and at least 2 distinct packages supply x.
C3_Potential ==
    Classified =>
        \A x \in FileNames :
            x \in DOMAIN not_vp_conflicts_map
            <=> (~BaselineSupplies(x) /\ Cardinality(Suppliers(x)) >= 2)

\* C3 (amended): x is a potential conflict iff at least 2 distinct
\* non-baseline package names supply x, whether or not a baseline package
\* supplies x too.
C3_PotentialNotVp ==
    Classified =>
        \A x \in FileNames :
            x \in DOMAIN not_vp_conflicts_map <=> Cardinality(NonVpNames(x)) >= 2

\* Scenario A: one baseline package and two non-baseline ones supply x
C3_Witness ==
    /\ Classified
    /\ \E x \in FileNames :
        /\ BaselineSupplies(x)
        /\ Cardinality(NonVpNames(x)) = 2
        /\ Cardinality(Suppliers(x)) = 3
        /\ x \in DOMAIN not_vp_conflicts_map

PairwiseDistinctOwners(map) ==
    \A x \in DOMAIN map : \A i, j \in DOMAIN map[x] :
        i # j => map[x][i].modname # map[x][j].modname

\* C4: the members of every group have pairwise distinct owning package names.
C4_DistinctOwners ==
    Classified =>
        /\ PairwiseDistinctOwners(vp_conflicts_map)
        /\ PairwiseDistinctOwners(not_vp_conflicts_map)

\* C5: when every script name is supplied by at most one package, both result
\* maps are empty.
C5_NoSharedName ==
    (Classified /\ \A x \in FileNames : Cardinality(Suppliers(x)) <= 1) =>
        /\ DOMAIN vp_conflicts_map = {}
        /\ DOMAIN not_vp_conflicts_map = {}

ClassificationNotStarted ==
    /\ vp_luas = {}
    /\ not_vp_luas = {}
    /\ DOMAIN vp_conflicts_map = {}
    /\ DOMAIN not_vp_conflicts_map = {}

\* C6: when the root is not a directory or a subdirectory holds no manifest,
\* the run ends in an error that names the offending path, nothing has been
\* printed and classification is never started.
C6_NoReportOnFailure ==
    /\ ~is_dir =>
        /\ pc \in {"getmods", "raised"}
        /\ pc = "raised" => error[3] = "root"
        /\ out = <<>>
        /\ ClassificationNotStarted
    /\ \A i \in DOMAIN tree :
        tree[i].modinfo = None =>
            /\ pc = "raised"
            /\ error # None
            /\ error[3] = i
            /\ out = <<>>
            /\ ClassificationNotStarted

\* a subdirectory without a manifest, found after another one was processed
C6_Witness ==
    /\ pc = "raised"
    /\ Len(mods) >= 1
    /\ tree[Len(tree)].modinfo = None
    /\ tree[1].luas # {}

SameMembership(m1, m2) ==
    /\ DOMAIN m1 = DOMAIN m2
    /\ \A x \in DOMAIN m1 :
        {v.modname : v \in Range(m1[x])} = {v.modname : v \in Range(m2[x])}

\* C7: whatever the iteration orders of the sets, the reported names and the
\* owning package names of every reported group are those of this run.
C7_OrderIndependent ==
    Classified =>
        /\ \A o1 \in Orders(vp_luas), o2 \in Orders(not_vp_luas) :
            SameMembership(find_vp_conflicts(o1, o2), vp_conflicts_map)
        /\ \A o \in Orders(not_vp_luas) :
            SameMembership(find_not_vp_conflicts(o), not_vp_conflicts_map)

\* another order retains another path in a reported group
C7_Witness ==
    /\ Classified
    /\ DOMAIN not_vp_conflicts_map # {}
    /\ \E o \in Orders(not_vp_luas) :
        \E x \in DOMAIN not_vp_conflicts_map :
            Range(find_not_vp_conflicts(o)[x]) # Range(not_vp_conflicts_map[x])

SortedOut == pc \in {"find_vp_conflicts", "find_not_vp_conflicts", "report", "done"}

\* C8: a reference is in the baseline set, flagged, iff its package's name has
\* a baseline name inside it, else in the other set, unflagged; the two sets
\* are disjoint, cover every (path, name) pair and split no package.
C8_SortOut ==
    SortedOut =>
        /\ \A i \in DOMAIN mods : \A f \in mods[i].lua_files :
            IF HasVpNameInside(name(mods[i]))
            THEN /\ LuaFile(f, name(mods[i]), TRUE) \in vp_luas
                 /\ \A lf \in not_vp_luas : lf.path # f
            ELSE /\ LuaFile(f, name(mods[i]), FALSE) \in not_vp_luas
                 /\ \A lf \in vp_luas : lf.path # f
        /\ \A lf \in vp_luas \cup not_vp_luas :
            \E i \in DOMAIN mods :
                lf.path \in mods[i].lua_files /\ lf.modname = name(mods[i])
        /\ \A lf \in vp_luas : lf.is_vp
        /\ \A lf \in not_vp_luas : ~lf.is_vp
        /\ vp_luas \cap not_vp_luas = {}
        /\ \A a \in vp_luas, b \in not_vp_luas :
            a.path.dir # b.path.dir /\ a.modname # b.modname

\* a baseline package whose name is longer than the baseline name, next to a
\* package whose name shares a part with a baseline name
C8_Witness ==
    /\ SortedOut
    /\ \E lf \in vp_luas : \A i \in DOMAIN VP_MODNAMES : VP_MODNAMES[i] # lf.modname
    /\ \E lf \in not_vp_luas : lf.modname[1] = "Community Patch"

\* C9: every group returned by find_vp_conflicts has a member owned by a VP
\* mod and members owned by at least two distinct non-VP mods.
C9_TwoOtherMods ==
    Classified =>
        \A x \in DOMAIN vp_conflicts_map :
            /\ \E v \in Range(vp_conflicts_map[x]) : HasVpNameInside(v.modname)
            /\ Cardinality({v.modname : v \in
                   {w \in Range(vp_conflicts_map[x]) : ~HasVpNameInside(w.modname)}})
               >= 2

\* two non-baseline packages in different subdirectories that both supply x,
\* which no baseline package supplies
BothSupply(i, j, x) ==
    /\ i # j
    /\ i \in Suppliers(x) /\ j \in Suppliers(x)
    /\ ~Baseline(i) /\ ~Baseline(j)
    /\ ~BaselineSupplies(x)

\* C10 (as stated): such an x is a potential conflict with one member per
\* package, also when the two packages have the same name.
C10_ByManifestPath ==
    Classified =>
        \A x \in FileNames : \A i, j \in DOMAIN mods :
            BothSupply(i, j, x) =>
                /\ x \in DOMAIN not_vp_conflicts_map
                /\ Cardinality(MembersBelow(not_vp_conflicts_map, x, i)) = 1
                /\ Cardinality(MembersBelow(not_vp_conflicts_map, x, j)) = 1

\* C10 (amended): packages are distinguished by name: such an x is a potential
\* conflict with one member per package when the two names differ; two
\* packages of the same name contribute one member between them, and x is not
\* reported when no package of another name supplies it.
C10_ByName ==
    Classified =>
        \A x \in FileNames : \A i, j \in DOMAIN mods :
            BothSupply(i, j, x) =>
                IF name(mods[i]) # name(mods[j])
                THEN /\ x \in DOMAIN not_vp_conflicts_map
                     /\ Cardinality(MembersNamed(not_vp_conflicts_map, x,
                                                 name(mods[i]))) = 1
                     /\ Cardinality(MembersNamed(not_vp_conflicts_map, x,
                                                 name(mods[j]))) = 1
                ELSE /\ Cardinality(MembersNamed(not_vp_conflicts_map, x,
                                                 name(mods[i]))) <= 1
                     /\ NonVpNames(x) = {name(mods[i])}
                            => x \notin DOMAIN not_vp_conflicts_map

\* two packages of one name and a third of another name all supply x
C10_Witness ==
    /\ Classified
    /\ \E x \in DOMAIN not_vp_conflicts_map : \E i, j \in DOMAIN mods :
        /\ BothSupply(i, j, x)
        /\ name(mods[i]) = name(mods[j])

====
